---- MODULE Spec2Model ----
(***************************************************************************)
(* A model of apps/search/src/search/models.py: the three configuration   *)
(* sub-documents of a search collection (Facet, Result, Sorting), their    *)
(* merge-update from posted form data, the Solr query parameters built     *)
(* from them, and the normalisation of a faceted Solr response.            *)
(*                                                                         *)
(* A TextField `data` is represented by the JSON document it denotes (a    *)
(* function from keys to values).  Texts that arrive in a POST are kept as *)
(* texts and go through json_loads, which fails on malformed text and maps *)
(* several spellings to one value.  A JSON number is represented by its   *)
(* numeral, which is also what Python's %s formatting makes of it.         *)
(***************************************************************************)
EXTENDS Integers, Sequences, FiniteSets, TLC

VARIABLES
  facets,      \* Collection.facets.data  (Facet.data)
  result,      \* Collection.result.data  (Result.data)
  sorting,     \* Collection.sorting.data (Sorting.data)
  last,        \* the update_from_post call handled last: object, post_data, outcome
  returned,    \* the value returned by the query-parameter method called last
  response,    \* the response object handed to augment_solr_response (mutated in place)
  outcome,     \* how the module-level function called last ended
  lookup       \* the label/uuid lookup made last and what it returned

vars == <<facets, result, sorting, last, returned, response, outcome, lookup>>

-----------------------------------------------------------------------------
(* Bounds of the model *)

\* the largest number of keys one post_data carries
MaxPostKeys == 2

\* the largest number of entries of a configured list (fields, ranges, dates,
\* highlighting, sort fields)
MaxEntries == 2

\* the largest number of entries of fields, ranges and dates together in a
\* facet configuration handed to the normaliser
MaxConfigured == 2

\* the largest number of facets in one Solr response
MaxResponseFacets == 3

-----------------------------------------------------------------------------
(* Python helpers *)

\* dict.get(k) is not None, for a dict whose values are never None
Has(d, k) == k \in DOMAIN d

\* d[k] = v on a dict
dict_set_extend(d, k, v) ==
  IF k \in DOMAIN d /\ k \in {"fields", "ranges", "dates", "order", "highlighting"}
  THEN [d EXCEPT ![k] = d[k] \o v]
  ELSE [x \in DOMAIN d \cup {k} |-> IF x = k THEN v ELSE d[x]]

dict_set(d, k, v) == [x \in DOMAIN d \cup {k} |-> IF x = k THEN v ELSE d[x]]

\* `x and 'true' or 'false'`: both results are non-empty strings
true_or_false(x) == IF x THEN "true" ELSE "false"

\* truth value of a Python str
str_truthy(s) == s # ""

-----------------------------------------------------------------------------
(* The texts a POST can carry, and json.loads on them *)

FacetPropertiesText == "{\"isEnabled\": true, \"limit\": 10, \"mincount\": 1, \"sort\": \"index\"}"
FacetFieldsText     == "[{\"field\": \"a\", \"label\": \"A\", \"uuid\": \"u1\"}]"
FacetFieldsSpaced   == "[ {\"field\":\"a\", \"label\":\"A\", \"uuid\":\"u1\"} ]"
FacetRangesText     == "[{\"field\": \"n\", \"label\": \"N\", \"uuid\": \"u2\", \"start\": 0, \"end\": 100, \"gap\": 10}]"
FacetDatesText      == "[{\"field\": \"d\", \"label\": \"D\", \"uuid\": \"\", \"start\": {\"frequency\": 7, \"unit\": \"DAYS\"}, \"end\": {\"frequency\": 1, \"unit\": \"DAYS\"}, \"gap\": {\"frequency\": 1, \"unit\": \"HOURS\"}}]"
FacetOrderText      == "[\"u2\", \"u1\"]"
ResultPropertiesText   == "{\"highlighting_enabled\": true}"
ResultTemplateText     == "\"<b>{{id}}</b>\""
ResultHighlightingText == "[\"text\"]"
ResultExtracodeText    == "\"<style></style>\""
SortingPropertiesText  == "{\"is_enabled\": true}"
SortingFieldsText      == "[{\"field\": \"date\", \"asc\": false}]"
TruncatedText          == "[{\"field\": "

\* json.loads on the texts above that are valid JSON
JsonValue ==
     FacetPropertiesText :> [isEnabled |-> TRUE, limit |-> "10", mincount |-> "1", sort |-> "index"]
  @@ FacetFieldsText     :> <<[field |-> "a", label |-> "A", uuid |-> "u1"]>>
  @@ FacetFieldsSpaced   :> <<[field |-> "a", label |-> "A", uuid |-> "u1"]>>
  @@ FacetRangesText     :> <<[field |-> "n", label |-> "N", uuid |-> "u2",
                              start |-> "0", end |-> "100", gap |-> "10"]>>
  @@ FacetDatesText      :> <<[field |-> "d", label |-> "D", uuid |-> "",
                              start |-> [frequency |-> "7", unit |-> "DAYS"],
                              end |-> [frequency |-> "1", unit |-> "DAYS"],
                              gap |-> [frequency |-> "1", unit |-> "HOURS"]]>>
  @@ FacetOrderText      :> <<"u2", "u1">>
  @@ ResultPropertiesText   :> [highlighting_enabled |-> TRUE]
  @@ ResultTemplateText     :> "<b>{{id}}</b>"
  @@ ResultHighlightingText :> <<"text">>
  @@ ResultExtracodeText    :> "<style></style>"
  @@ SortingPropertiesText  :> [is_enabled |-> TRUE]
  @@ SortingFieldsText      :> <<[field |-> "date", asc |-> FALSE]>>

\* json.loads raises ValueError on text that is not JSON
json_loads_raises(text) == text \notin DOMAIN JsonValue

json_loads(text) == JsonValue[text]

-----------------------------------------------------------------------------
(* _ATTRIBUTES of the three models *)

Facet_ATTRIBUTES   == <<"properties", "fields", "ranges", "dates", "order">>
Result_ATTRIBUTES  == <<"properties", "template", "highlighting", "extracode">>
Sorting_ATTRIBUTES == <<"properties", "fields">>

ATTRIBUTES(obj) ==
  CASE obj = "facets"  -> Facet_ATTRIBUTES
    [] obj = "result"  -> Result_ATTRIBUTES
    [] obj = "sorting" -> Sorting_ATTRIBUTES

Range(s) == {s[i] : i \in DOMAIN s}

\* the texts a post_data can carry under key k when posted to obj
Texts(obj, k) ==
  CASE obj = "facets" /\ k = "properties"   -> {FacetPropertiesText, TruncatedText}
    [] obj = "facets" /\ k = "fields"       -> {FacetFieldsText, FacetFieldsSpaced, TruncatedText}
    [] obj = "facets" /\ k = "ranges"       -> {FacetRangesText, TruncatedText}
    [] obj = "facets" /\ k = "dates"        -> {FacetDatesText, TruncatedText}
    [] obj = "facets" /\ k = "order"        -> {FacetOrderText, TruncatedText}
    [] obj = "result" /\ k = "properties"   -> {ResultPropertiesText, TruncatedText}
    [] obj = "result" /\ k = "template"     -> {ResultTemplateText, TruncatedText}
    [] obj = "result" /\ k = "highlighting" -> {ResultHighlightingText, TruncatedText}
    [] obj = "result" /\ k = "extracode"    -> {ResultExtracodeText, TruncatedText}
    [] obj = "sorting" /\ k = "properties"  -> {SortingPropertiesText, TruncatedText}
    [] obj = "sorting" /\ k = "fields"      -> {SortingFieldsText, TruncatedText}
    [] OTHER                                -> {TruncatedText}

\* a key no model recognizes
UnknownKey == "csrfmiddlewaretoken"

PostKeys(obj) == Range(ATTRIBUTES(obj)) \cup {UnknownKey}

\* the post_data whose keys are exactly D
RECURSIVE PostsOver(_, _)
PostsOver(obj, D) ==
  IF D = {} THEN {<<>>}
  ELSE LET k == CHOOSE x \in D : TRUE IN
       {(k :> t) @@ p : p \in PostsOver(obj, D \ {k}), t \in Texts(obj, k)}

\* the post_data a caller can hand to obj.update_from_post
Posts(obj) ==
  UNION {PostsOver(obj, D) : D \in {S \in SUBSET PostKeys(obj) : Cardinality(S) <= MaxPostKeys}}

FacetPosts   == Posts("facets")
ResultPosts  == Posts("result")
SortingPosts == Posts("sorting")

-----------------------------------------------------------------------------
(* update_from_post *)

\* the loop `for attr in _ATTRIBUTES` over the remaining attributes; it stops
\* at the first json.loads that raises
RECURSIVE merge_attributes(_, _, _)
merge_attributes(attrs, data_dict, post_data) ==
  IF attrs = <<>> THEN [raised |-> FALSE, data_dict |-> data_dict]
  ELSE LET attr == Head(attrs) IN
       IF Has(post_data, attr)
       THEN IF json_loads_raises(post_data[attr])
            THEN [raised |-> TRUE, data_dict |-> data_dict]
            ELSE merge_attributes(Tail(attrs),
                                  dict_set(data_dict, attr, json_loads(post_data[attr])),
                                  post_data)
       ELSE merge_attributes(Tail(attrs), data_dict, post_data)

\* the posted attributes replace the whole document
update_from_post_replace(attrs, data, post_data) ==
  LET r == merge_attributes(attrs, <<>>, post_data) IN
  [raised |-> r.raised, data |-> IF r.raised THEN data ELSE r.data_dict]

\* the mutated data_dict reaches self.data even when json.loads raised
update_from_post_write_through(attrs, data, post_data) ==
  LET r == merge_attributes(attrs, data, post_data) IN
  [raised |-> r.raised, data |-> r.data_dict]

\* self.data after the call, and whether the call raised
update_from_post(attrs, data, post_data) ==
  LET r == merge_attributes(attrs, data, post_data) IN
  [raised |-> r.raised, data |-> IF r.raised THEN data ELSE r.data_dict]

-----------------------------------------------------------------------------
(* The documents CollectionManager.get_or_create stores for a new collection *)

DefaultFacets ==
  [properties |-> [isEnabled |-> FALSE, limit |-> "10", mincount |-> "1", sort |-> "count"],
   ranges |-> <<>>, fields |-> <<>>, dates |-> <<>>]

DefaultResult ==
  [template |-> "<div class=\"row-fluid\">...</div>", highlighting |-> <<>>,
   properties |-> [highlighting_enabled |-> FALSE], extracode |-> "<style>...</style>"]

DefaultSorting == [properties |-> [is_enabled |-> FALSE], fields |-> <<>>]

\* a key written by another release of the application, which no _ATTRIBUTES lists
LegacyKey == "version"

\* `again` tells that the call repeated the call before it: same object, same post_data
NoCall == [obj |-> "none", post_data |-> <<>>, raised |-> FALSE, again |-> FALSE]

Call(obj, post_data, raised) ==
  [obj |-> obj, post_data |-> post_data, raised |-> raised,
   again |-> (last.obj = obj /\ last.post_data = post_data)]
NoLookup == [fn |-> "none", field |-> "", type |-> "", value |-> ""]

-----------------------------------------------------------------------------
(* Specification of the merge-updates *)

InitMerge ==
  /\ \E legacy \in BOOLEAN :
       /\ facets  = IF legacy THEN dict_set(DefaultFacets, LegacyKey, "1") ELSE DefaultFacets
       /\ result  = IF legacy THEN dict_set(DefaultResult, LegacyKey, "1") ELSE DefaultResult
       /\ sorting = IF legacy THEN dict_set(DefaultSorting, LegacyKey, "1") ELSE DefaultSorting
  /\ last = NoCall
  /\ returned = [op |-> "none", value |-> <<>>]
  /\ response = <<>>
  /\ outcome = "none"
  /\ lookup = NoLookup

\* Facet.update_from_post(post_data)
Facet_update_from_post(post_data) ==
  LET r == update_from_post(Facet_ATTRIBUTES, facets, post_data) IN
  /\ facets' = r.data
  /\ last' = Call("facets", post_data, r.raised)
  /\ UNCHANGED <<result, sorting, returned, response, outcome, lookup>>

\* Result.update_from_post(post_data)
Result_update_from_post(post_data) ==
  LET r == update_from_post(Result_ATTRIBUTES, result, post_data) IN
  /\ result' = r.data
  /\ last' = Call("result", post_data, r.raised)
  /\ UNCHANGED <<facets, sorting, returned, response, outcome, lookup>>

\* Sorting.update_from_post(post_data)
Sorting_update_from_post(post_data) ==
  LET r == update_from_post(Sorting_ATTRIBUTES, sorting, post_data) IN
  /\ sorting' = r.data
  /\ last' = Call("sorting", post_data, r.raised)
  /\ UNCHANGED <<facets, result, returned, response, outcome, lookup>>

\* The three rows share no state, so a behaviour posts to one of them only:
\* interleaving posts to different rows adds nothing to what any row can do.
NextMerge ==
  \/ /\ last.obj \in {"none", "facets"}
     /\ \E post_data \in FacetPosts : Facet_update_from_post(post_data)
  \/ /\ last.obj \in {"none", "result"}
     /\ \E post_data \in ResultPosts : Result_update_from_post(post_data)
  \/ /\ last.obj \in {"none", "sorting"}
     /\ \E post_data \in SortingPosts : Sorting_update_from_post(post_data)

SpecMerge == InitMerge /\ [][NextMerge]_vars

-----------------------------------------------------------------------------
(* get_query_params of the three models, and Collection.get_query *)

\* data_dict.get(k) of a list-valued key, as the `if data_dict.get(k):` tests
\* read it: a missing key and an empty list both skip the block
list_or_empty(data_dict, k) == IF k \in DOMAIN data_dict THEN data_dict[k] ELSE <<>>

\* d.get(k) of a boolean flag: a missing key gives None, which is false
flag(d, k) == k \in DOMAIN d /\ d[k]

\* sep.join(strings)
RECURSIVE str_join(_, _)
str_join(sep, strings) ==
  IF strings = <<>> THEN ""
  ELSE IF Len(strings) = 1 THEN strings[1]
  ELSE strings[1] \o sep \o str_join(sep, Tail(strings))

\* [('facet.field', field_facet['field']) for field_facet in data_dict['fields']]
field_facets(fields) == [i \in 1..Len(fields) |-> <<"facet.field", fields[i].field>>]

\* the four parameters of one entry of `ranges`
range_facets(field_facet) ==
  << <<"facet.range", field_facet.field>>,
     <<"f." \o field_facet.field \o ".facet.range.start", field_facet.start>>,
     <<"f." \o field_facet.field \o ".facet.range.end", field_facet.end>>,
     <<"f." \o field_facet.field \o ".facet.range.gap", field_facet.gap>> >>

\* the start boundary is rounded with its own unit
date_facets_start_unit(field_facet) ==
  LET start == field_facet.start
      end == field_facet.end
      gap == field_facet.gap
  IN << <<"facet.date", field_facet.field>>,
        <<"f." \o field_facet.field \o ".facet.date.start",
          "NOW-" \o start.frequency \o start.unit \o "/" \o start.unit>>,
        <<"f." \o field_facet.field \o ".facet.date.end",
          "NOW-" \o end.frequency \o end.unit>>,
        <<"f." \o field_facet.field \o ".facet.date.gap",
          "+" \o gap.frequency \o gap.unit>> >>

\* the four parameters of one entry of `dates`
date_facets(field_facet) ==
  LET start == field_facet.start
      end == field_facet.end
      gap == field_facet.gap
  IN << <<"facet.date", field_facet.field>>,
        <<"f." \o field_facet.field \o ".facet.date.start",
          "NOW-" \o start.frequency \o start.unit \o "/" \o gap.unit>>,
        <<"f." \o field_facet.field \o ".facet.date.end",
          "NOW-" \o end.frequency \o end.unit>>,
        <<"f." \o field_facet.field \o ".facet.date.gap",
          "+" \o gap.frequency \o gap.unit>> >>

\* `for field_facet in data_dict['ranges']: params += range_facets`
RECURSIVE all_range_facets(_)
all_range_facets(ranges) ==
  IF ranges = <<>> THEN <<>>
  ELSE range_facets(Head(ranges)) \o all_range_facets(Tail(ranges))

\* `for field_facet in data_dict['dates']: params += date_facets`
RECURSIVE all_date_facets(_)
all_date_facets(dates) ==
  IF dates = <<>> THEN <<>>
  ELSE date_facets(Head(dates)) \o all_date_facets(Tail(dates))

\* Facet.get_query_params
Facet_get_query_params(data_dict) ==
  LET properties == data_dict["properties"] IN
     << <<"facet", true_or_false(flag(properties, "isEnabled"))>>,
        <<"facet.limit", properties["limit"]>>,
        <<"facet.mincount", properties["mincount"]>>,
        <<"facet.sort", properties["sort"]>> >>
     \o field_facets(list_or_empty(data_dict, "fields"))
     \o all_range_facets(list_or_empty(data_dict, "ranges"))
     \o all_date_facets(list_or_empty(data_dict, "dates"))

\* Result.get_query_params
Result_get_query_params(data_dict) ==
  LET properties == IF "properties" \in DOMAIN data_dict THEN data_dict["properties"] ELSE <<>> IN
  IF list_or_empty(data_dict, "highlighting") # <<>>
  THEN << <<"hl", true_or_false(flag(properties, "highlighting_enabled"))>>,
          <<"hl.fl", str_join(",", data_dict["highlighting"])>> >>
  ELSE <<>>

\* '%s %s' % (field['field'], field['asc'] and 'asc' or 'desc')
sort_term(field) == field.field \o " " \o (IF field.asc THEN "asc" ELSE "desc")

\* Sorting.get_query_params: the outer `if` tests the string that
\* `is_enabled and 'true' or 'false'` evaluates to
Sorting_get_query_params(data_dict) ==
  LET properties == IF "properties" \in DOMAIN data_dict THEN data_dict["properties"] ELSE <<>>
      fields == list_or_empty(data_dict, "fields")
  IN IF str_truthy(true_or_false(flag(properties, "is_enabled")))
     THEN IF fields # <<>>
          THEN << <<"sort", str_join(",", [i \in 1..Len(fields) |-> sort_term(fields[i])])>> >>
          ELSE <<>>
     ELSE <<>>

\* result parameters ahead of the facet parameters
Collection_get_query_result_first(f, r, s) ==
  Result_get_query_params(r) \o Facet_get_query_params(f) \o Sorting_get_query_params(s)

\* Collection.get_query
Collection_get_query(f, r, s) ==
  Facet_get_query_params(f) \o Result_get_query_params(r) \o Sorting_get_query_params(s)

-----------------------------------------------------------------------------
(* Specification of the query-parameter builders *)

FieldCatalogue ==
  << [field |-> "user", label |-> "User", uuid |-> "u1"],
     [field |-> "lang", label |-> "Language", uuid |-> ""],
     [field |-> "tags", label |-> "Tags", uuid |-> "u2"],
     [field |-> "kind", label |-> "Kind", uuid |-> "u3"] >>

RangeCatalogue ==
  << [field |-> "age", label |-> "Age", uuid |-> "u4", start |-> "0", end |-> "100", gap |-> "10"],
     [field |-> "size", label |-> "Size", uuid |-> "", start |-> "1", end |-> "9", gap |-> "2"],
     [field |-> "rank", label |-> "Rank", uuid |-> "u5", start |-> "5", end |-> "50", gap |-> "5"],
     [field |-> "hits", label |-> "Hits", uuid |-> "u6", start |-> "2", end |-> "8", gap |-> "3"] >>

DateCatalogue ==
  << [field |-> "created_at", label |-> "Created", uuid |-> "u7",
      start |-> [frequency |-> "7", unit |-> "DAYS"],
      end |-> [frequency |-> "1", unit |-> "DAYS"],
      gap |-> [frequency |-> "1", unit |-> "DAYS"]],
     [field |-> "updated_at", label |-> "Updated", uuid |-> "",
      start |-> [frequency |-> "12", unit |-> "MONTHS"],
      end |-> [frequency |-> "2", unit |-> "DAYS"],
      gap |-> [frequency |-> "6", unit |-> "HOURS"]],
     [field |-> "seen_at", label |-> "Seen", uuid |-> "u8",
      start |-> [frequency |-> "3", unit |-> "YEARS"],
      end |-> [frequency |-> "0", unit |-> "MONTHS"],
      gap |-> [frequency |-> "1", unit |-> "MONTHS"]],
     [field |-> "sent_at", label |-> "Sent", uuid |-> "u9",
      start |-> [frequency |-> "48", unit |-> "HOURS"],
      end |-> [frequency |-> "30", unit |-> "MINUTES"],
      gap |-> [frequency |-> "15", unit |-> "MINUTES"]] >>

HighlightingCatalogue == <<"text", "title", "body", "user">>

SortCatalogue ==
  << [field |-> "date", asc |-> FALSE], [field |-> "score", asc |-> TRUE],
     [field |-> "id", asc |-> TRUE], [field |-> "size", asc |-> FALSE] >>

Reverse(s) == [i \in 1..Len(s) |-> s[Len(s) + 1 - i]]

\* the lists of at most MaxEntries entries drawn from a catalogue, in the
\* catalogue's order or against it
Lists(catalogue) ==
  LET n == IF MaxEntries < Len(catalogue) THEN MaxEntries ELSE Len(catalogue) IN
  {SubSeq(catalogue, 1, k) : k \in 0..n} \cup {Reverse(SubSeq(catalogue, 1, k)) : k \in 0..n}

InitQuery ==
  /\ \E isEnabled \in BOOLEAN, fields \in Lists(FieldCatalogue),
        ranges \in Lists(RangeCatalogue), dates \in Lists(DateCatalogue) :
       facets = [properties |-> [isEnabled |-> isEnabled, limit |-> "10",
                                 mincount |-> "1", sort |-> "count"],
                 fields |-> fields, ranges |-> ranges, dates |-> dates]
  /\ \E properties \in {[highlighting_enabled |-> TRUE], [highlighting_enabled |-> FALSE], <<>>},
        highlighting \in Lists(HighlightingCatalogue) :
       result = [DefaultResult EXCEPT !.properties = properties, !.highlighting = highlighting]
  /\ \E properties \in {[is_enabled |-> TRUE], [is_enabled |-> FALSE], <<>>},
        fields \in Lists(SortCatalogue) :
       sorting = [properties |-> properties, fields |-> fields]
  /\ last = NoCall
  /\ returned = [op |-> "none", value |-> <<>>]
  /\ response = <<>>
  /\ outcome = "none"
  /\ lookup = NoLookup

\* a call of self.facets.get_query_params()
CallFacetGetQueryParams ==
  /\ returned' = [op |-> "Facet.get_query_params", value |-> Facet_get_query_params(facets)]
  /\ UNCHANGED <<facets, result, sorting, last, response, outcome, lookup>>

\* a call of self.result.get_query_params()
CallResultGetQueryParams ==
  /\ returned' = [op |-> "Result.get_query_params", value |-> Result_get_query_params(result)]
  /\ UNCHANGED <<facets, result, sorting, last, response, outcome, lookup>>

\* a call of self.sorting.get_query_params()
CallSortingGetQueryParams ==
  /\ returned' = [op |-> "Sorting.get_query_params", value |-> Sorting_get_query_params(sorting)]
  /\ UNCHANGED <<facets, result, sorting, last, response, outcome, lookup>>

\* a call of Collection.get_query()
CallCollectionGetQuery ==
  /\ returned' = [op |-> "Collection.get_query",
                  value |-> Collection_get_query(facets, result, sorting)]
  /\ UNCHANGED <<facets, result, sorting, last, response, outcome, lookup>>

NextQuery ==
  \/ CallFacetGetQueryParams
  \/ CallResultGetQueryParams
  \/ CallSortingGetQueryParams
  \/ CallCollectionGetQuery

SpecQuery == InitQuery /\ [][NextQuery]_vars

-----------------------------------------------------------------------------
(* get_facet_field_label, get_facet_field_uuid *)

\* `for fld in entries: if fld['field'] == field: acc = fld[attr]`
RECURSIVE scan(_, _, _, _)
scan(entries, field, attr, acc) ==
  IF entries = <<>> THEN acc
  ELSE scan(Tail(entries), field, attr,
            IF Head(entries).field = field THEN Head(entries)[attr] ELSE acc)

\* the sub-list the branch for `type` scans; no branch matches another type
sublist(type, facets_dict) ==
  CASE type = "field" -> facets_dict["fields"]
    [] type = "range" -> facets_dict["ranges"]
    [] type = "date"  -> facets_dict["dates"]
    [] OTHER          -> <<>>

get_facet_field_label(field, type, facets_dict) ==
  scan(sublist(type, facets_dict), field, "label", field)

\* the lookup scans the three sub-lists whatever the type
get_facet_field_uuid_any_type(field, type, facets_dict) ==
  scan(facets_dict["fields"] \o facets_dict["ranges"] \o facets_dict["dates"], field, "uuid", "")

get_facet_field_uuid(field, type, facets_dict) ==
  scan(sublist(type, facets_dict), field, "uuid", "")

-----------------------------------------------------------------------------
(* augment_solr_response *)

\* A dict of the response that the code iterates is a sequence of
\* [name, value] items in the dict's iteration order.
item_get(items, k) == items[CHOOSE i \in 1..Len(items) : items[i].name = k].value

\* the loop over iteritems() of one entry of facet_dates
RECURSIVE date_counts(_)
date_counts(items) ==
  IF items = <<>> THEN <<>>
  ELSE (IF Head(items).name \notin {"start", "end", "gap"}
        THEN <<Head(items).name, Head(items).value>> ELSE <<>>)
       \o date_counts(Tail(items))

\* the `facet` dict built for category `cat` of the given type
facet_record(type, cat, value, facets_dict) ==
  CASE type = "field" ->
         [field |-> cat, type |-> "field",
          label |-> get_facet_field_label(cat, "field", facets_dict),
          counts |-> value]
    [] type = "range" ->
         [field |-> cat, type |-> "range",
          label |-> get_facet_field_label(cat, "range", facets_dict),
          counts |-> value.counts, start |-> value.start, end |-> value.end, gap |-> value.gap]
    [] type = "date" ->
         [field |-> cat, type |-> "date",
          label |-> get_facet_field_label(cat, "date", facets_dict),
          start |-> item_get(value, "start"), end |-> item_get(value, "end"),
          gap |-> item_get(value, "gap"), counts |-> date_counts(value)]

\* one `for cat in response['facet_counts'][...]` loop; acc holds the locals
\* normalized_facets (a dict keyed by uuid) and default_facets (a list)
RECURSIVE collect(_, _, _, _)
collect(type, cats, facets_dict, acc) ==
  IF cats = <<>> THEN acc
  ELSE LET cat == Head(cats).name
           facet == facet_record(type, cat, Head(cats).value, facets_dict)
           uuid == get_facet_field_uuid(cat, type, facets_dict)
       IN collect(type, Tail(cats), facets_dict,
                  IF uuid = ""
                  THEN [acc EXCEPT !.default_facets = Append(@, facet)]
                  ELSE [acc EXCEPT !.normalized_facets = (uuid :> facet) @@ @])

Categories ==
  << [key |-> "facet_fields", type |-> "field"],
     [key |-> "facet_ranges", type |-> "range"],
     [key |-> "facet_dates", type |-> "date"] >>

\* the three `if response['facet_counts'][key]:` blocks in turn; subscripting
\* a missing key raises KeyError
RECURSIVE collect_categories(_, _, _, _)
collect_categories(categories, facet_counts, facets_dict, acc) ==
  IF categories = <<>> THEN [raised |-> FALSE, acc |-> acc]
  ELSE IF Head(categories).key \notin DOMAIN facet_counts
       THEN [raised |-> TRUE, acc |-> acc]
       ELSE collect_categories(Tail(categories), facet_counts, facets_dict,
                               collect(Head(categories).type,
                                       facet_counts[Head(categories).key], facets_dict, acc))

\* `for ordered_uuid in facets.get('order', []): try: append ... except: pass`
RECURSIVE ordered_facets(_, _)
ordered_facets(order, normalized_facets) ==
  IF order = <<>> THEN <<>>
  ELSE (IF Head(order) \in DOMAIN normalized_facets
        THEN <<normalized_facets[Head(order)]>> ELSE <<>>)
       \o ordered_facets(Tail(order), normalized_facets)

\* the default facets ahead of the ordered ones
assemble_defaults_first(order, acc) ==
  acc.default_facets \o ordered_facets(order, acc.normalized_facets)

\* augmented['normalized_facets'] after the two closing statements
assemble(order, acc) ==
  ordered_facets(order, acc.normalized_facets) \o acc.default_facets

\* augment_solr_response(response, facets): the response object after the
\* call, and whether the call raised
augment_solr_response(resp, facets_dict) ==
  LET augmented == ("normalized_facets" :> <<>>) @@ resp
      facet_counts == IF "facet_counts" \in DOMAIN resp THEN resp["facet_counts"] ELSE <<>>
      none == [normalized_facets |-> <<>>, default_facets |-> <<>>]
      r == IF DOMAIN facet_counts # {}
           THEN collect_categories(Categories, facet_counts, facets_dict, none)
           ELSE [raised |-> FALSE, acc |-> none]
      order == IF "order" \in DOMAIN facets_dict THEN facets_dict["order"] ELSE <<>>
  IN IF r.raised
     THEN [raised |-> TRUE, response |-> augmented]
     ELSE [raised |-> FALSE,
           response |-> ("normalized_facets" :> assemble(order, r.acc)) @@ resp]

-----------------------------------------------------------------------------
(* Specification of the response normaliser and of the two lookups *)

FacetNames == {"a", "b"}

\* the (field, uuid) pairs a configured entry can carry: an entry without
\* uuid, two fields under one uuid, one field under two uuids
EntryChoices == {<<"a", "">>, <<"a", "u1">>, <<"b", "u1">>, <<"b", "u2">>}

\* the entries of one sub-list; the label tells the sub-list and the position
configured(kind, choices) ==
  [i \in 1..Len(choices) |->
     [field |-> choices[i][1], uuid |-> choices[i][2],
      label |-> kind \o ":" \o choices[i][1] \o ToString(i)]]

ChoiceLists(n) == UNION {[1..k -> EntryChoices] : k \in 0..n}

\* `order` lists each uuid at most once
Orders == {<<>>, <<"u1">>, <<"u2">>, <<"u1", "u2">>, <<"u2", "u1">>}

\* what Solr returns for one facet of each category
FieldValue == <<"x", "3", "y", "1">>
RangeValue == [counts |-> <<"0", "2", "10", "5">>, start |-> "0", end |-> "100", gap |-> "10"]
DateValue ==
  << [name |-> "gap", value |-> "+1DAY"],
     [name |-> "2013-01-01T00:00:00Z", value |-> "4"],
     [name |-> "start", value |-> "2013-01-01T00:00:00Z"],
     [name |-> "2013-01-02T00:00:00Z", value |-> "0"],
     [name |-> "end", value |-> "2013-01-03T00:00:00Z"] >>

CategoryValue(key) ==
  CASE key = "facet_fields" -> FieldValue
    [] key = "facet_ranges" -> RangeValue
    [] key = "facet_dates"  -> DateValue

\* the orders in which a dict of facets of FacetNames can be iterated
NameLists == {<<>>, <<"a">>, <<"b">>, <<"a", "b">>, <<"b", "a">>}

\* the facet_counts dicts with keys `keys` that hold at most n facets
RECURSIVE FacetCounts(_, _)
FacetCounts(keys, n) ==
  IF keys = {} THEN {<<>>}
  ELSE LET key == CHOOSE k \in keys : TRUE IN
       UNION { {(key :> [i \in 1..Len(names) |->
                          [name |-> names[i], value |-> CategoryValue(key)]]) @@ rest :
                  rest \in FacetCounts(keys \ {key}, n - Len(names))} :
               names \in {l \in NameLists : Len(l) <= n} }

\* the responses handed to augment_solr_response: without facet_counts, or
\* with a facet_counts that holds any of the three categories
Responses ==
  {<<>>} \cup
  UNION { {[facet_counts |-> fc] : fc \in FacetCounts(keys, MaxResponseFacets)} :
          keys \in SUBSET {"facet_fields", "facet_ranges", "facet_dates"} }

InitNorm ==
  /\ \E f \in ChoiceLists(MaxConfigured) :
       \E r \in ChoiceLists(MaxConfigured - Len(f)) :
         \E d \in ChoiceLists(MaxConfigured - Len(f) - Len(r)) :
           \E order \in Orders, has_order \in BOOLEAN :
             LET lists == [fields |-> configured("field", f),
                           ranges |-> configured("range", r),
                           dates |-> configured("date", d)]
             IN /\ ~has_order => order = <<>>
                /\ facets = IF has_order THEN ("order" :> order) @@ lists ELSE lists
  /\ result = DefaultResult
  /\ sorting = DefaultSorting
  /\ last = NoCall
  /\ returned = [op |-> "none", value |-> <<>>]
  /\ response = <<>>
  /\ outcome = "none"
  /\ lookup = NoLookup

\* a call of augment_solr_response(resp, facets)
CallAugmentSolrResponse(resp) ==
  LET r == augment_solr_response(resp, facets) IN
  /\ response' = r.response
  /\ outcome' = IF r.raised THEN "KeyError" ELSE "returned"
  /\ UNCHANGED <<facets, result, sorting, last, returned, lookup>>

\* a call of get_facet_field_label(field, type, facets)
CallGetFacetFieldLabel(field, type) ==
  /\ lookup' = [fn |-> "get_facet_field_label", field |-> field, type |-> type,
                value |-> get_facet_field_label(field, type, facets)]
  /\ UNCHANGED <<facets, result, sorting, last, returned, response, outcome>>

\* a call of get_facet_field_uuid(field, type, facets)
CallGetFacetFieldUuid(field, type) ==
  /\ lookup' = [fn |-> "get_facet_field_uuid", field |-> field, type |-> type,
                value |-> get_facet_field_uuid(field, type, facets)]
  /\ UNCHANGED <<facets, result, sorting, last, returned, response, outcome>>

FacetTypes == {"field", "range", "date"}

\* The three functions keep no state between calls, so a behaviour draws a
\* configuration and makes one call.
NextNorm ==
  \/ /\ outcome = "none" /\ lookup = NoLookup
     /\ \E resp \in Responses : CallAugmentSolrResponse(resp)
  \/ /\ outcome = "none" /\ lookup = NoLookup
     /\ \E field \in FacetNames, type \in FacetTypes : CallGetFacetFieldLabel(field, type)
  \/ /\ outcome = "none" /\ lookup = NoLookup
     /\ \E field \in FacetNames, type \in FacetTypes : CallGetFacetFieldUuid(field, type)

SpecNorm == InitNorm /\ [][NextNorm]_vars

-----------------------------------------------------------------------------
(* Properties of the merge-updates *)

Recognized(obj) == Range(ATTRIBUTES(obj))

\* the recognized attributes a call's post_data carries
Present(call) == Recognized(call.obj) \cap DOMAIN call.post_data

\* C4: a Facet.update_from_post that returns leaves every recognized attribute
\* present in post_data at the parsed posted value and every other key of the
\* stored document (absent recognized attributes, unknown keys) at the value
\* it had; keys of post_data outside _ATTRIBUTES add and change nothing.
C4_PartialMerge ==
  [][ (last'.obj = "facets" /\ ~last'.raised) =>
        LET post_data == last'.post_data
            present == Present(last')
        IN /\ DOMAIN facets' = DOMAIN facets \cup present
           /\ \A k \in present : facets'[k] = json_loads(post_data[k])
           /\ \A k \in DOMAIN facets \ present : facets'[k] = facets[k] ]_vars

\* a post of `fields` and an unknown key has been merged into a document
\* that carries an unknown key and lacks `order`
C4_Witness ==
  /\ last.obj = "facets" /\ ~last.raised
  /\ DOMAIN last.post_data = {"fields", UnknownKey}
  /\ last.post_data["fields"] = FacetFieldsSpaced
  /\ facets["fields"] = <<[field |-> "a", label |-> "A", uuid |-> "u1"]>>
  /\ LegacyKey \in DOMAIN facets
  /\ "order" \notin DOMAIN facets
  /\ UnknownKey \notin DOMAIN facets

\* C6: an update_from_post that repeats the call before it, which returned,
\* returns too and leaves the three stored documents as that call left them.
C6_MergeIdempotent ==
  [][ (last'.again /\ ~last.raised) =>
        /\ ~last'.raised
        /\ facets' = facets /\ result' = result /\ sorting' = sorting ]_vars

\* a post that changed the stored document has been applied a second time
C6_Witness ==
  /\ last.again /\ ~last.raised
  /\ Present(last) # {}
  /\ \/ last.obj = "facets" /\ facets["fields"] # <<>>
     \/ last.obj = "result" /\ result["highlighting"] # <<>>
     \/ last.obj = "sorting" /\ sorting["fields"] # <<>>

\* C10: update_from_post raises exactly when a recognized attribute present in
\* post_data holds text that is not JSON, and a call that raises leaves the
\* three stored documents as they were.
C10_FailedMergeKeepsDocument ==
  [][ last'.obj # "none" =>
        /\ last'.raised <=> (\E k \in Present(last') : json_loads_raises(last'.post_data[k]))
        /\ last'.raised => (facets' = facets /\ result' = result /\ sorting' = sorting) ]_vars

\* a call raised on a later attribute after an earlier one had parsed, on a
\* document that an earlier call had changed
C10_Witness ==
  /\ last.raised
  /\ \/ /\ last.obj = "facets"
        /\ DOMAIN last.post_data = {"properties", "order"}
        /\ last.post_data["properties"] = FacetPropertiesText
        /\ facets["properties"] = DefaultFacets.properties
        /\ facets["fields"] # <<>>
     \/ /\ last.obj = "sorting"
        /\ DOMAIN last.post_data = {"properties", "fields"}
        /\ last.post_data["properties"] = SortingPropertiesText
        /\ sorting["properties"] = DefaultSorting.properties
        /\ LegacyKey \in DOMAIN sorting

-----------------------------------------------------------------------------
(* Properties of the query-parameter builders *)

\* C3: Sorting.get_query_params returns the single pair ('sort', terms) when
\* properties.is_enabled is true and fields is non-empty, and the empty
\* sequence otherwise, in particular whenever is_enabled is false or absent.
C3_SortGatedByIsEnabled ==
  returned.op = "Sorting.get_query_params" =>
    returned.value =
      IF flag(sorting.properties, "is_enabled") /\ sorting.fields # <<>>
      THEN << <<"sort", str_join(",", [i \in 1..Len(sorting.fields) |->
                                         sort_term(sorting.fields[i])])>> >>
      ELSE <<>>

\* the position of the dates entry i's first parameter, less one
DateBase(i) == 4 + Len(facets.fields) + 4 * Len(facets.ranges) + 4 * (i - 1)

\* C7: for every dates entry with field F the facet parameters hold,
\* contiguously, facet.date=F, f.F.facet.date.start=NOW-<start>/<gap.unit>,
\* f.F.facet.date.end=NOW-<end> without rounding, f.F.facet.date.gap=+<gap>.
C7_DateMath ==
  returned.op \in {"Facet.get_query_params", "Collection.get_query"} =>
    \A i \in 1..Len(facets.dates) :
      LET e == facets.dates[i]
          b == DateBase(i)
          F == e.field
      IN /\ Len(returned.value) >= b + 4
         /\ returned.value[b + 1] = <<"facet.date", F>>
         /\ returned.value[b + 2] =
              <<"f." \o F \o ".facet.date.start",
                "NOW-" \o e.start.frequency \o e.start.unit \o "/" \o e.gap.unit>>
         /\ returned.value[b + 3] =
              <<"f." \o F \o ".facet.date.end", "NOW-" \o e.end.frequency \o e.end.unit>>
         /\ returned.value[b + 4] =
              <<"f." \o F \o ".facet.date.gap", "+" \o e.gap.frequency \o e.gap.unit>>

\* the parameters of a dates entry whose start unit differs from its gap unit
\* and of the entry start=7 DAYS, end=1 DAYS, gap=1 DAYS have been returned
C7_Witness ==
  /\ returned.op = "Facet.get_query_params"
  /\ Len(facets.dates) = 2
  /\ \E p, q \in 1..Len(returned.value) :
       /\ returned.value[p] = <<"f.updated_at.facet.date.start", "NOW-12MONTHS/HOURS">>
       /\ returned.value[p + 1] = <<"f.updated_at.facet.date.end", "NOW-2DAYS">>
       /\ returned.value[q] = <<"f.created_at.facet.date.start", "NOW-7DAYS/DAYS">>
       /\ returned.value[q + 2] = <<"f.created_at.facet.date.gap", "+1DAYS">>

Keys(params) == [i \in 1..Len(params) |-> params[i][1]]

\* C8: Collection.get_query returns the facet parameters, then the result
\* parameters, then the sort parameters; the facet parameters are the four
\* base parameters, one facet.field per fields entry, four contiguous
\* parameters per ranges entry, then the parameters of the dates entries, each
\* list in document order.
C8_ParameterOrder ==
  returned.op = "Collection.get_query" =>
    LET q == returned.value
        nf == Len(facets.fields)
        nr == Len(facets.ranges)
        nd == Len(facets.dates)
        n == 4 + nf + 4 * nr + 4 * nd
        rp == Result_get_query_params(result)
        sp == Sorting_get_query_params(sorting)
    IN /\ Len(q) = n + Len(rp) + Len(sp)
       /\ SubSeq(Keys(q), 1, 4) = <<"facet", "facet.limit", "facet.mincount", "facet.sort">>
       /\ \A i \in 1..nf : q[4 + i] = <<"facet.field", facets.fields[i].field>>
       /\ \A i \in 1..nr :
            LET e == facets.ranges[i]
                b == 4 + nf + 4 * (i - 1)
            IN /\ q[b + 1] = <<"facet.range", e.field>>
               /\ q[b + 2] = <<"f." \o e.field \o ".facet.range.start", e.start>>
               /\ q[b + 3] = <<"f." \o e.field \o ".facet.range.end", e.end>>
               /\ q[b + 4] = <<"f." \o e.field \o ".facet.range.gap", e.gap>>
       /\ \A i \in 1..nd :
            LET e == facets.dates[i]
                b == 4 + nf + 4 * nr + 4 * (i - 1)
            IN SubSeq(Keys(q), b + 1, b + 4) =
                 <<"facet.date", "f." \o e.field \o ".facet.date.start",
                   "f." \o e.field \o ".facet.date.end", "f." \o e.field \o ".facet.date.gap">>
       /\ SubSeq(q, n + 1, n + Len(rp)) = rp
       /\ SubSeq(q, n + Len(rp) + 1, Len(q)) = sp

\* a query built from two fields, two ranges, a date facet, highlighting and
\* a sort field has been returned
C8_Witness ==
  /\ returned.op = "Collection.get_query"
  /\ Len(facets.fields) = 2 /\ Len(facets.ranges) = 2 /\ Len(facets.dates) = 1
  /\ result.highlighting # <<>> /\ sorting.fields # <<>>
  /\ Len(returned.value) = 4 + 2 + 8 + 4 + 2 + 1
  /\ returned.value[7] = <<"facet.range", "age">>
  /\ returned.value[10] = <<"f.age.facet.range.gap", "10">>
  /\ Keys(returned.value)[16] = "f.created_at.facet.date.start"
  /\ Keys(returned.value)[19] = "hl"
  /\ Keys(returned.value)[21] = "sort"

-----------------------------------------------------------------------------
(* Properties of the lookups and of the response normaliser *)

Max(S) == CHOOSE x \in S : \A y \in S : y <= x

SubListKey(type) ==
  CASE type = "field" -> "fields" [] type = "range" -> "ranges" [] type = "date" -> "dates"

\* the positions of the entries of the sub-list of `type` whose field is `field`
Matches(field, type) ==
  {i \in 1..Len(facets[SubListKey(type)]) : facets[SubListKey(type)][i].field = field}

\* what the entry of the sub-list of `type` for `field` says under attr (with
\* several such entries, the last of them), or `otherwise` without such entry
Resolve(field, type, attr, otherwise) ==
  IF Matches(field, type) = {} THEN otherwise
  ELSE facets[SubListKey(type)][Max(Matches(field, type))][attr]

\* C9: a lookup of (field, type) returns the label, respectively the uuid, of
\* the entry with that field in the sub-list of that type alone, and without
\* such an entry the field name itself, respectively the empty string.
C9_LookupBySubList ==
  /\ lookup.fn = "get_facet_field_label" =>
       lookup.value = Resolve(lookup.field, lookup.type, "label", lookup.field)
  /\ lookup.fn = "get_facet_field_uuid" =>
       lookup.value = Resolve(lookup.field, lookup.type, "uuid", "")

\* the uuid of a range facet `a` was looked up in a configuration in which
\* only the fields sub-list has an entry for `a`, and the lookup returned ''
C9_Witness ==
  /\ lookup = [fn |-> "get_facet_field_uuid", field |-> "a", type |-> "range", value |-> ""]
  /\ Len(facets.fields) = 1 /\ facets.fields[1].field = "a" /\ facets.fields[1].uuid = "u1"
  /\ \A i \in 1..Len(facets.ranges) : facets.ranges[i].field # "a"

\* the facets of a response in the order the three loops meet them
Discovered(resp) ==
  IF "facet_counts" \notin DOMAIN resp THEN <<>>
  ELSE LET fc == resp["facet_counts"]
           of(c) == IF c.key \in DOMAIN fc
                    THEN [i \in 1..Len(fc[c.key]) |->
                            [type |-> c.type, name |-> fc[c.key][i].name,
                             value |-> fc[c.key][i].value]]
                    ELSE <<>>
       IN of(Categories[1]) \o of(Categories[2]) \o of(Categories[3])

ConfiguredOrder == IF "order" \in DOMAIN facets THEN facets["order"] ELSE <<>>

UuidOf(d) == Resolve(d.name, d.type, "uuid", "")
RecordOf(d) == facet_record(d.type, d.name, d.value, facets)

\* C1: when augment_solr_response returns, normalized_facets is, for each uuid
\* of `order` in turn that a response facet resolved to, the record of that
\* facet (of the last discovered one if several resolved to it), followed by
\* the records of the facets that resolved to the empty uuid, in discovery
\* order: field, range, date.
C1_NormalizedOrder ==
  outcome = "returned" =>
    LET disc == Discovered(response)
        with(u) == {i \in 1..Len(disc) : UuidOf(disc[i]) = u}
        hits == SelectSeq(ConfiguredOrder, LAMBDA u : with(u) # {})
        defaults == SelectSeq(disc, LAMBDA d : UuidOf(d) = "")
    IN response["normalized_facets"] =
         [k \in 1..Len(hits) |-> RecordOf(disc[Max(with(hits[k]))])]
         \o [k \in 1..Len(defaults) |-> RecordOf(defaults[k])]

\* order = [u2, u1], facets that resolve to u1 and to u2 and an unconfigured
\* facet have been normalized to [facet(u2), facet(u1), facet(unconfigured)]
C1_Witness ==
  /\ outcome = "returned"
  /\ ConfiguredOrder = <<"u2", "u1">>
  /\ Len(response["normalized_facets"]) = 3
  /\ LET nf == response["normalized_facets"] IN
       /\ nf[1].type = "range" /\ nf[1].field = "b" /\ nf[1].label = "range:b1"
       /\ nf[2].type = "field" /\ nf[2].field = "a" /\ nf[2].label = "field:a1"
       /\ nf[3].type = "date" /\ nf[3].field = "a" /\ nf[3].label = "a"
       /\ nf[3].counts = <<"2013-01-01T00:00:00Z", "4", "2013-01-02T00:00:00Z", "0">>

\* C2: when augment_solr_response returns, every response facet whose uuid
\* does not occur in `order`, be the uuid empty or not, has its record in
\* normalized_facets after the records of the ordered facets.
C2_NoFacetLost ==
  outcome = "returned" =>
    LET disc == Discovered(response)
        nf == response["normalized_facets"]
        in_order(u) == \E k \in 1..Len(ConfiguredOrder) : ConfiguredOrder[k] = u
        ordered == {p \in 1..Len(nf) :
                      \E i \in 1..Len(disc) : in_order(UuidOf(disc[i])) /\ nf[p] = RecordOf(disc[i])}
    IN \A i \in 1..Len(disc) :
         ~in_order(UuidOf(disc[i])) =>
           \E p \in 1..Len(nf) : nf[p] = RecordOf(disc[i]) /\ \A o \in ordered : o < p

\* C5: augment_solr_response returns for a response without facet_counts and
\* for one whose facet_counts lacks any of facet_fields, facet_ranges,
\* facet_dates, with an empty normalized_facets when it has none of them.
C5_TotalOnMissingFacetData ==
  outcome # "none" =>
    /\ outcome = "returned"
    /\ Discovered(response) = <<>> => response["normalized_facets"] = <<>>

====
